---- MODULE Spec2Model ----
(***************************************************************************)
(* Voxel world of Gamev2: VoxelWorld.loadChunk (column fill, shared voxel  *)
(* map, face-culling mesher) and the chunk streamer of generation/render.ts *)
(* (deleteIfOutRadius, addInRadius, chunkRenderLoop).                      *)
(*                                                                         *)
(* Numbers are integers.  The streamer's viewer coordinate                 *)
(* floorMultiple(p, CHUNK_SIZE) / 8 is kept exact as a fraction [n, d].    *)
(* A Mesh object is its identity (a number); calls[id] is the loadChunk    *)
(* call that built it.                                                     *)
(***************************************************************************)
EXTENDS Integers, Sequences, FiniteSets, TLC

VARIABLES
    CHUNK_SIZE,      \* VoxelWorld.CHUNK_SIZE / CHUNK_SIZE of ./main
    columnFill,      \* the column-fill policy loadVoxelChunk applies
    renderDistance,  \* gameState.renderDistance
    camera,          \* cam.camera.position: [x, z]
    counter,         \* render.ts: var counter
    octrees,         \* cam.octrees.map: <<cx, cy>> -> {tree, blocks}
    scene,           \* the Mesh objects in the Scene
    voxelFaceMap,    \* VoxelWorld.voxelFaceMap: [x, y, z] -> tile id
    calls,           \* history: the loadChunk calls made, in order
    run              \* history: the streamer steps since the last load or move

vars == <<CHUNK_SIZE, columnFill, renderDistance, camera, counter, octrees,
          scene, voxelFaceMap, calls, run>>

(***************************************************************************)
(* Bounds and input sets                                                   *)
(***************************************************************************)
MaxLoads == 3

\* an optional value: undefined is the empty tuple, a value v is <<v>>
undefined == <<>>

Some(v) == <<v>>

\* chunk sizes tried; 1 gives a chunk of one column
ChunkSizes == {1, 2}

\* arguments of loadChunk: <<chunkX, chunkZ, chunkY>>, chunkY possibly omitted
LoadArgs ==
    { <<0, 0, undefined>>, <<1, 0, undefined>>, <<0, 1, undefined>>,
      <<0, 0, Some(0)>>, <<0, 0, Some(-1)>>, <<0, 0, Some(1)>> }

\* column-fill policies: the addBlock(tile, yBase + dy) calls of one column,
\* as <<tile, dy>> in call order.  Tile 0 is grass, 1 is stone, 2 is sand.
Policies ==
    { << <<0, 1>>, <<1, 0>> >>,      \* grass on top of stone
      << <<2, 0>> >>,                \* a single block
      << <<1, 0>>, <<0, 2>> >> }     \* stone, a gap, grass

\* texture atlas: tile size and image dimensions (VoxelContructorOpts.uv)
uv == [size |-> 16, imageWidth |-> 64, imageHeight |-> 48]

(***************************************************************************)
(* voxel-block: the face table and the sparse voxel map                    *)
(***************************************************************************)
Corner(p, t) == [pos |-> p, uv |-> t]

faces == <<
    [uvRow |-> 0, dir |-> <<-1, 0, 0>>, corners |-> <<
        Corner(<<0, 1, 0>>, <<0, 1>>), Corner(<<0, 0, 0>>, <<0, 0>>),
        Corner(<<0, 1, 1>>, <<1, 1>>), Corner(<<0, 0, 1>>, <<1, 0>>) >>],
    [uvRow |-> 0, dir |-> <<1, 0, 0>>, corners |-> <<
        Corner(<<1, 1, 1>>, <<0, 1>>), Corner(<<1, 0, 1>>, <<0, 0>>),
        Corner(<<1, 1, 0>>, <<1, 1>>), Corner(<<1, 0, 0>>, <<1, 0>>) >>],
    [uvRow |-> 1, dir |-> <<0, -1, 0>>, corners |-> <<
        Corner(<<1, 0, 1>>, <<1, 0>>), Corner(<<0, 0, 1>>, <<0, 0>>),
        Corner(<<1, 0, 0>>, <<1, 1>>), Corner(<<0, 0, 0>>, <<0, 1>>) >>],
    [uvRow |-> 2, dir |-> <<0, 1, 0>>, corners |-> <<
        Corner(<<0, 1, 1>>, <<1, 1>>), Corner(<<1, 1, 1>>, <<0, 1>>),
        Corner(<<0, 1, 0>>, <<1, 0>>), Corner(<<1, 1, 0>>, <<0, 0>>) >>],
    [uvRow |-> 0, dir |-> <<0, 0, -1>>, corners |-> <<
        Corner(<<1, 0, 0>>, <<0, 0>>), Corner(<<0, 0, 0>>, <<1, 0>>),
        Corner(<<1, 1, 0>>, <<0, 1>>), Corner(<<0, 1, 0>>, <<1, 1>>) >>],
    [uvRow |-> 0, dir |-> <<0, 0, 1>>, corners |-> <<
        Corner(<<0, 0, 1>>, <<0, 0>>), Corner(<<1, 0, 1>>, <<1, 0>>),
        Corner(<<0, 1, 1>>, <<0, 1>>), Corner(<<1, 1, 1>>, <<1, 1>>) >>] >>

XYZ(x, y, z) == [x |-> x, y |-> y, z |-> z]

\* CoordinateMap3D.get: the tile id, or undefined when the key was never set
mapGet(m, x, y, z) ==
    IF XYZ(x, y, z) \in DOMAIN m THEN Some(m[XYZ(x, y, z)]) ELSE undefined

(***************************************************************************)
(* quadrant: the Octree, as its box and the items it holds                 *)
(***************************************************************************)
newOctree(o) == [x |-> o.x, y |-> o.y, z |-> o.z, width |-> o.width,
                 height |-> o.height, depth |-> o.depth, items |-> {}]

\* insert: an item fully outside the box is dropped
treeInsert(tree, item) ==
    IF /\ item.x + item.width > tree.x /\ item.x < tree.x + tree.width
       /\ item.y + item.height > tree.y /\ item.y < tree.y + tree.height
       /\ item.z + item.depth > tree.z /\ item.z < tree.z + tree.depth
    THEN [tree EXCEPT !.items = @ \cup {item}]
    ELSE tree

(***************************************************************************)
(* VoxelWorld                                                              *)
(***************************************************************************)
\* loadChunk line 65: chunkY ||= -1
chunkYOrDefault(chunkY) ==
    IF chunkY = undefined \/ chunkY = Some(0) THEN -1 ELSE chunkY[1]

\* loopChunk(x, z, f): the columns <<xc, zc>> in the order f is called on
\* them; the outer loop steps z, the inner loop x
loopChunk(x, z) ==
    [k \in 1 .. CHUNK_SIZE * CHUNK_SIZE |->
        << ((k - 1) % CHUNK_SIZE) + x, ((k - 1) \div CHUNK_SIZE) + z >>]

\* loadVoxelChunk(addBlock, yBase): the addBlock(uv, yy) calls of one column
loadVoxelChunk(yBase) ==
    [n \in 1 .. Len(columnFill) |->
        [uv |-> columnFill[n][1], yy |-> yBase + columnFill[n][2]]]

\* a column fill that leaves out a block whose key the voxel map already holds
loadVoxelSkipKnown(m, xc, zc, y) ==
    LET blocks == [n \in 1 .. Len(loadVoxelChunk(y)) |->
                      [pos |-> XYZ(xc, loadVoxelChunk(y)[n].yy, zc),
                       uv |-> loadVoxelChunk(y)[n].uv]]
        New(b) == b.pos \notin DOMAIN m
    IN SelectSeq(blocks, New)

\* loadVoxel({xc, zc, y, tree, array}) on voxel map m: the blocks addBlock
\* makes, as [pos, uv], in call order.  The elevation of line 144 is computed
\* and not used: the policy is given addBlock and the base y only.
loadVoxel(m, xc, zc, y) ==
    [n \in 1 .. Len(loadVoxelChunk(y)) |->
        [pos |-> XYZ(xc, loadVoxelChunk(y)[n].yy, zc),
         uv |-> loadVoxelChunk(y)[n].uv]]

\* the concatenation of a sequence of sequences
RECURSIVE Flatten(_)
Flatten(ss) == IF ss = << >> THEN << >> ELSE Head(ss) \o Flatten(Tail(ss))

\* lines 80-82: the blocks of all columns of the chunk at (x, y, z)
chunkBlocks(m, x, y, z) ==
    Flatten([k \in 1 .. CHUNK_SIZE * CHUNK_SIZE |->
                loadVoxel(m, loopChunk(x, z)[k][1], loopChunk(x, z)[k][2], y)])

\* line 153: the voxel map after voxelFaceMap.set (CoordinateMap3D.set, insert
\* or overwrite) for each block in order; a later set of a key wins
setBlocks(m, blocks) ==
    LET keys == { blocks[i].pos : i \in DOMAIN blocks }
        last(p) == CHOOSE i \in DOMAIN blocks :
                       /\ blocks[i].pos = p
                       /\ \A j \in DOMAIN blocks : blocks[j].pos = p => j <= i
    IN [p \in DOMAIN m \cup keys |->
           IF p \in keys THEN blocks[last(p)].uv ELSE m[p]]

\* addBlockToTree for each block: a unit box per block, dropped by the tree
\* when it lies outside the tree's box
addBlockToTree(tree, blocks) ==
    [tree EXCEPT !.items = @ \cup
        { it \in { [x |-> blocks[i].pos.x, y |-> blocks[i].pos.y,
                    z |-> blocks[i].pos.z, width |-> 1, height |-> 1,
                    depth |-> 1] : i \in DOMAIN blocks } :
            treeInsert(tree, it) # tree }]

\* a neighbor test by truthiness (!neighbor), which takes tile 0 for absent
neighborFalsy(neighbor) == neighbor = undefined \/ neighbor = Some(0)

\* findFaces line 203: neighbor == undefined
neighborAbsent(neighbor) == neighbor = undefined

\* a first-vertex index taken as the number of position components
ndxUndivided(length) == length

\* findFaces line 205: ndx = positions.length / 3
ndxOf(length) == length \div 3

\* lines 207-211: the 12 position numbers findFaces pushes for a face
facePositions(pos, face) ==
    LET P(i) == << face.corners[i].pos[1] + pos.x, face.corners[i].pos[2] + pos.y,
                   face.corners[i].pos[3] + pos.z >>
    IN P(1) \o P(2) \o P(3) \o P(4)

\* line 212: normals.push(...dir) for each of the 4 corners
faceNormals(face) == face.dir \o face.dir \o face.dir \o face.dir

\* lines 214-217: the uv pair of one corner, each an exact fraction [n, d]:
\* (uvVoxel + u) * tileWidthRatio, 1 - (uvRow + 1 - v) * tileHeightRatio
cornerUV(uvVoxel, uvRow, c) ==
    << [n |-> (uvVoxel + c.uv[1]) * uv.size, d |-> uv.imageWidth],
       [n |-> uv.imageHeight - (uvRow + 1 - c.uv[2]) * uv.size,
        d |-> uv.imageHeight] >>

faceUVs(uvVoxel, face) ==
    cornerUV(uvVoxel, face.uvRow, face.corners[1])
        \o cornerUV(uvVoxel, face.uvRow, face.corners[2])
        \o cornerUV(uvVoxel, face.uvRow, face.corners[3])
        \o cornerUV(uvVoxel, face.uvRow, face.corners[4])

\* lines 220-223: the 6 indices pushed for a face made when the position
\* buffer holds `length` numbers
faceIndices(length) ==
    LET ndx == ndxOf(length)
    IN << ndx, ndx + 1, ndx + 2, ndx + 2, ndx + 1, ndx + 3 >>

\* findFaces for each position of the list (lines 89-97, 196-203): the faces
\* made, as <<i, f>> (position i, face f), in the order they are made
facesMade(array, m) ==
    LET all == [n \in 1 .. Len(array) * Len(faces) |->
                   << ((n - 1) \div Len(faces)) + 1, ((n - 1) % Len(faces)) + 1 >>]
        Made(e) == neighborAbsent(
                       mapGet(m, array[e[1]].x + faces[e[2]].dir[1],
                                 array[e[1]].y + faces[e[2]].dir[2],
                                 array[e[1]].z + faces[e[2]].dir[3]))
    IN SelectSeq(all, Made)

\* the four buffers after all findFaces calls: the k-th face made is pushed
\* when the position buffer holds the 12 numbers of each face before it
meshBuffers(array, m) ==
    LET made == facesMade(array, m)
        pos(k) == array[made[k][1]]
        face(k) == faces[made[k][2]]
    IN [positions |-> Flatten([k \in 1 .. Len(made) |-> facePositions(pos(k), face(k))]),
        normals |-> Flatten([k \in 1 .. Len(made) |-> faceNormals(face(k))]),
        uvs |-> Flatten([k \in 1 .. Len(made) |->
                    faceUVs(mapGet(m, pos(k).x, pos(k).y, pos(k).z)[1], face(k))]),
        indices |-> Flatten([k \in 1 .. Len(made) |-> faceIndices(12 * (k - 1))])]

\* loadChunk(chunkX, chunkZ, chunkY) on voxel map m, the new Mesh being `mesh`:
\* what it returns ({tree, blocks}), the voxel map it leaves, and the buffers
\* and position list it built
loadChunk(m, chunkX, chunkZ, chunkY, mesh) ==
    LET cY == chunkYOrDefault(chunkY)
        x == chunkX * CHUNK_SIZE
        y == cY * CHUNK_SIZE
        z == chunkZ * CHUNK_SIZE
        tree0 == newOctree([width |-> CHUNK_SIZE, height |-> CHUNK_SIZE,
                            depth |-> CHUNK_SIZE, x |-> x, y |-> y, z |-> z])
        blocks == chunkBlocks(m, x, y, z)
        array == [i \in DOMAIN blocks |-> blocks[i].pos]
        m1 == setBlocks(m, blocks)
        buf == meshBuffers(array, m1)
    IN [tree |-> addBlockToTree(tree0, blocks), blocks |-> <<mesh>>,
        voxelFaceMap |-> m1, blocksToIterate |-> array,
        positions |-> buf.positions, normals |-> buf.normals,
        uvs |-> buf.uvs, indices |-> buf.indices]

(***************************************************************************)
(* render.ts: the chunk streamer                                           *)
(***************************************************************************)
counterOg == 50

\* lib/util floorMultiple(n, m): the largest multiple of m not above n
floorMultiple(n, m) == (n \div m) * m

\* lines 18-21 and 39-42: floorMultiple(position, CHUNK_SIZE) / 8, exactly
viewerCoord(p) == [n |-> floorMultiple(p, CHUNK_SIZE), d |-> 8]

\* the unload test with > for >= on the upper edges
outRadiusOffByOne(x, y, cx, cy, r) ==
    \/ x.n < cx * x.d \/ x.n > (cx + r) * x.d
    \/ y.n < cy * y.d \/ y.n > (cy + r) * y.d

\* line 28: x < cx || x >= cx + r || y < cy || y >= cy + r
outRadius(x, y, cx, cy, r) ==
    \/ x.n < cx * x.d \/ x.n >= (cx + r) * x.d
    \/ y.n < cy * y.d \/ y.n >= (cy + r) * y.d

\* the Mesh objects of a set of store entries
blocksOf(map, keys) ==
    UNION { { map[k].blocks[i] : i \in DOMAIN map[k].blocks } : k \in keys }

\* the keys deleteIfOutRadius(r0) deletes from store `map`: r is r0 + 1
\* (line 17); a key "cx,cy" is read back with parseInt, which returns the
\* integers the key was written from
outKeys(r0, map) ==
    LET r == r0 + 1
        x == viewerCoord(camera.x)
        y == viewerCoord(camera.z)
    IN { k \in DOMAIN map : outRadius(x, y, k[1], k[2], r) }

\* an unload pass that stops after the first key it deletes
deleteFirstOutRadius(r0, st) ==
    LET out == outKeys(r0, st.octrees)
        gone == IF out = {} THEN {}
                ELSE {CHOOSE k \in out :
                        \A j \in out : k[1] < j[1] \/ (k[1] = j[1] /\ k[2] <= j[2])}
    IN [octrees |-> [k \in DOMAIN st.octrees \ gone |-> st.octrees[k]],
        scene |-> st.scene \ blocksOf(st.octrees, gone)]

\* deleteIfOutRadius(r) on st = [octrees, scene]: the store and scene it leaves
deleteIfOutRadius(r0, st) ==
    LET gone == outKeys(r0, st.octrees)
    IN [octrees |-> [k \in DOMAIN st.octrees \ gone |-> st.octrees[k]],
        scene |-> st.scene \ blocksOf(st.octrees, gone)]

\* addInRadius lines 55-61: the window coordinates whose store lookup is
\* undefined, as offsets <<i, j>> from the viewer coordinate (x + i, y + j)
missingInRadius(r, st) ==
    LET x == viewerCoord(camera.x)
        y == viewerCoord(camera.z)
    IN { w \in (0 .. r - 1) \X (0 .. r - 1) :
           ~ \E k \in DOMAIN st.octrees :
               k[1] * x.d = x.n + w[1] * x.d /\ k[2] * y.d = y.n + w[2] * y.d }

\* addInRadius(r) on st = [octrees, scene]: the body of the test at line 58 is
\* empty (line 59 is a comment), so the store and the scene are as before
addInRadius(r, st) ==
    LET toLoad == missingInRadius(r, st)
    IN st

(***************************************************************************)
(* State machine                                                           *)
(***************************************************************************)
\* camera positions <<x, z>> the viewer moves to
CamPositions == { <<0, 0>>, <<-1, 0>>, <<3, 3>>, <<8, 0>>, <<16, 8>> }

Radii == {0, 1, 2}

\* the history of streamer ticks since the last load or move: how many ran
\* (counted to two), the store and scene before the first, after the first
\* one's unload step, and after the first
freshRun(st) == [ticks |-> 0, start |-> st, unloaded |-> st, first |-> st]

stepRun(afterUnload, afterLoad) ==
    IF run.ticks = 0
    THEN [ticks |-> 1, start |-> run.start, unloaded |-> afterUnload,
          first |-> afterLoad]
    ELSE [run EXCEPT !.ticks = 2]

InitWith(sizes, policies, radii) ==
    /\ CHUNK_SIZE \in sizes
    /\ columnFill \in policies
    /\ renderDistance \in radii
    /\ camera = [x |-> 0, z |-> 0]
    /\ counter = counterOg
    /\ octrees = << >>
    /\ scene = {}
    /\ voxelFaceMap = << >>
    /\ calls = << >>
    /\ run = freshRun([octrees |-> << >>, scene |-> {}])

\* cam.octrees.set(x, y, v)
octreesSet(map, x, y, v) ==
    [k \in DOMAIN map \cup {<<x, y>>} |-> IF k = <<x, y>> THEN v ELSE map[k]]

\* a caller loads a chunk: VoxelWorld.loadChunk (which adds the mesh to the
\* scene, line 136) and the registration of its result in cam.octrees
LoadChunkCall(a) ==
    /\ Len(calls) < MaxLoads
    /\ LET res == loadChunk(voxelFaceMap, a[1], a[2], a[3], Len(calls) + 1)
           o == octreesSet(octrees, a[1], a[2],
                           [tree |-> res.tree, blocks |-> res.blocks])
           s == scene \cup {Len(calls) + 1}
       IN /\ voxelFaceMap' = res.voxelFaceMap
          /\ scene' = s
          /\ octrees' = o
          /\ calls' = Append(calls, [chunkX |-> a[1], chunkZ |-> a[2],
                                     chunkY |-> a[3], result |-> res])
          /\ run' = freshRun([octrees |-> o, scene |-> s])
    /\ UNCHANGED <<CHUNK_SIZE, columnFill, renderDistance, camera, counter>>

\* the viewer moves
MoveCamera(p) ==
    /\ camera # [x |-> p[1], z |-> p[2]]
    /\ camera' = [x |-> p[1], z |-> p[2]]
    /\ run' = freshRun([octrees |-> octrees, scene |-> scene])
    /\ UNCHANGED <<CHUNK_SIZE, columnFill, renderDistance, counter, octrees,
                   scene, voxelFaceMap, calls>>

\* the two streamer steps applied as lines 70-71 name them: the unload step,
\* then the load step, for the configured radius
StreamerSteps ==
    /\ LET d == deleteIfOutRadius(renderDistance,
                                  [octrees |-> octrees, scene |-> scene])
           e == addInRadius(renderDistance, d)
       IN /\ octrees' = e.octrees
          /\ scene' = e.scene
          /\ run' = stepRun(d, e)
    /\ UNCHANGED <<CHUNK_SIZE, columnFill, renderDistance, camera, counter,
                   voxelFaceMap, calls>>

\* chunkRenderLoop's callback, lines 66-72: counter-- <= 0 tests the value
\* before the decrement; the two step calls at lines 70-71 are comments, so
\* a tick that fires leaves the store and the scene alone
chunkRenderLoop ==
    /\ IF counter <= 0
       THEN /\ counter' = counterOg
            /\ run' = stepRun([octrees |-> octrees, scene |-> scene],
                              [octrees |-> octrees, scene |-> scene])
       ELSE /\ counter' = counter - 1
            /\ run' = run
    /\ UNCHANGED <<CHUNK_SIZE, columnFill, renderDistance, camera, octrees,
                   scene, voxelFaceMap, calls>>

\* the world alone: loadChunk calls
InitWorld == InitWith(ChunkSizes, Policies, {1})

NextWorld == \E a \in LoadArgs : LoadChunkCall(a)

SpecWorld == InitWorld /\ [][NextWorld]_vars

\* the streamer's step functions applied directly
StreamLoads == { <<0, 0, undefined>>, <<1, 0, undefined>> }

InitStream == InitWith(ChunkSizes, { << <<0, 1>>, <<1, 0>> >> }, Radii)

NextStream ==
    \/ \E a \in StreamLoads : LoadChunkCall(a)
    \/ \E p \in CamPositions : MoveCamera(p)
    \/ StreamerSteps

SpecStream == InitStream /\ [][NextStream]_vars

\* the program as render.ts runs it
ProgramLoads == { <<0, 0, undefined>>, <<3, 3, undefined>> }

ProgramCams == { <<0, 0>>, <<6, 6>> }

Init == InitWith(ChunkSizes, { << <<0, 1>>, <<1, 0>> >> }, {1})

Next ==
    \/ \E a \in ProgramLoads : LoadChunkCall(a)
    \/ \E p \in ProgramCams : MoveCamera(p)
    \/ chunkRenderLoop

Spec == Init /\ [][Next]_vars

(***************************************************************************)
(* Properties                                                              *)
(***************************************************************************)
GrassOnStone == << <<0, 1>>, <<1, 0>> >>

\* C1 and C9 are stated of the latest loadChunk call: every call is the latest
\* one in the state it leaves, and its record does not change afterwards.

HasEntry(m, p, d) == XYZ(p.x + d[1], p.y + d[2], p.z + d[3]) \in DOMAIN m

\* the 12 position numbers of the quad of face `face` of the voxel at p
Quad(p, face) ==
    LET c(i) == << face.corners[i].pos[1] + p.x, face.corners[i].pos[2] + p.y,
                   face.corners[i].pos[3] + p.z >>
    IN c(1) \o c(2) \o c(3) \o c(4)

\* the k-th group of n numbers of a buffer
Group(buffer, n, k) == SubSeq(buffer, n * (k - 1) + 1, n * k)

\* the groups of 12 position numbers of a buffer that are the quad of face f
\* of the voxel at p
QuadsOf(positions, p, f) ==
    { k \in 1 .. (Len(positions) \div 12) : Group(positions, 12, k) = Quad(p, faces[f]) }

\* the <<i, f>> whose neighbor position has no entry in the voxel map
Exposed(array, m) ==
    { e \in (1 .. Len(array)) \X (1 .. Len(faces)) :
        ~ HasEntry(m, array[e[1]], faces[e[2]].dir) }

(* C1: in every loadChunk call, each voxel position of the list and each of
   the 6 directions has exactly one quad in the buffers when the voxel map has
   no entry at the neighbor position and none when it has one, whatever the
   entry's tile id; the buffers hold 4 vertices and 2 triangles per exposed
   face; and a chunk of one column, grass at y = 0 on stone at y = -1, loaded
   into an empty map, has 10 faces, 20 triangles and 40 vertices. *)
C1_FaceCulling ==
    \A n \in DOMAIN calls \cap {Len(calls)} :
        LET c == calls[n].result
            m == c.voxelFaceMap
            array == c.blocksToIterate
        IN /\ Len(faces) = 6
           /\ \A i \in DOMAIN array : \A f \in DOMAIN faces :
                 Cardinality(QuadsOf(c.positions, array[i], f)) =
                    IF HasEntry(m, array[i], faces[f].dir) THEN 0 ELSE 1
           /\ Len(c.positions) = 3 * 4 * Cardinality(Exposed(array, m))
           /\ Len(c.indices) = 3 * 2 * Cardinality(Exposed(array, m))
           /\ (n = 1 /\ CHUNK_SIZE = 1 /\ columnFill = GrassOnStone
                 /\ calls[n].chunkY = undefined)
              => /\ { array[i].y : i \in DOMAIN array } = {0, -1}
                 /\ Len(c.indices) = 3 * 20
                 /\ Len(c.positions) = 3 * 40
                 /\ Cardinality(Exposed(array, m)) = 10

\* the stacked pair was meshed, its stone's top face culled by the grass
\* voxel, whose tile id is 0
C1_Witness ==
    /\ calls # << >>
    /\ CHUNK_SIZE = 1 /\ columnFill = GrassOnStone
    /\ calls[1].chunkY = undefined
    /\ LET c == calls[1].result
       IN /\ Len(c.positions) = 120
          /\ \E i \in DOMAIN c.blocksToIterate :
                /\ mapGet(c.voxelFaceMap, c.blocksToIterate[i].x,
                          c.blocksToIterate[i].y + 1, c.blocksToIterate[i].z) = Some(0)
                /\ QuadsOf(c.positions, c.blocksToIterate[i], 4) = {}

(* C9: after each findFaces call of a loadChunk call, with F the number of
   exposed faces of the positions handled so far, positions and normals hold
   12 F numbers, uvs 8 F and indices 6 F; the indices of the k-th face (from
   0) are 4k, 4k+1, 4k+2, 4k+2, 4k+1, 4k+3, all below the vertex count; and
   the normal of each vertex of a face is the direction of that face. *)
C9_BufferShape ==
    \A n \in DOMAIN calls \cap {Len(calls)} :
        LET c == calls[n].result
            m == c.voxelFaceMap
        IN \A done \in 0 .. Len(c.blocksToIterate) :
              LET array == SubSeq(c.blocksToIterate, 1, done)
                  b == meshBuffers(array, m)
                  F == Cardinality(Exposed(array, m))
              IN /\ Len(b.positions) = 12 * F
                 /\ Len(b.normals) = 12 * F
                 /\ Len(b.uvs) = 8 * F
                 /\ Len(b.indices) = 6 * F
                 /\ b.positions = SubSeq(c.positions, 1, 12 * F)
                 /\ b.indices = SubSeq(c.indices, 1, 6 * F)
                 /\ \A k \in 0 .. F - 1 :
                       /\ Group(b.indices, 6, k + 1) =
                             << 4 * k, 4 * k + 1, 4 * k + 2,
                                4 * k + 2, 4 * k + 1, 4 * k + 3 >>
                       /\ \A j \in 1 .. 6 : Group(b.indices, 6, k + 1)[j] < 4 * F
                       /\ \E i \in DOMAIN array : \E f \in DOMAIN faces :
                             /\ Group(b.positions, 12, k + 1) = Quad(array[i], faces[f])
                             /\ Group(b.normals, 12, k + 1) =
                                   faces[f].dir \o faces[f].dir \o faces[f].dir
                                       \o faces[f].dir

\* a mesh of several faces was built
C9_Witness ==
    \E n \in DOMAIN calls : Len(calls[n].result.indices) >= 5 * 6

\* the positions next to the voxels of a call that are not its own voxels
Around(c) ==
    LET own == { c.result.blocksToIterate[i] : i \in DOMAIN c.result.blocksToIterate }
    IN { XYZ(p.x + faces[f].dir[1], p.y + faces[f].dir[2], p.z + faces[f].dir[3]) :
            p \in own, f \in DOMAIN faces } \ own

SameArgs(c, d) ==
    c.chunkX = d.chunkX /\ c.chunkZ = d.chunkZ /\ c.chunkY = d.chunkY

(* C5 as stated: two loadChunk calls for the same chunk coordinate build the
   same position list and element-wise equal position and index buffers,
   whatever was loaded before or between them. *)
C5_Original ==
    \A i, j \in DOMAIN calls :
        SameArgs(calls[i], calls[j])
        => /\ calls[i].result.blocksToIterate = calls[j].result.blocksToIterate
           /\ calls[i].result.positions = calls[j].result.positions
           /\ calls[i].result.indices = calls[j].result.indices

(* C5 amended: two loadChunk calls for the same chunk coordinate build the
   same position list; their four buffers are element-wise equal whenever the
   voxel map holds entries at the same positions next to the chunk's voxels
   at both calls. *)
C5_Determinism ==
    \A i, j \in DOMAIN calls :
        SameArgs(calls[i], calls[j])
        => /\ calls[i].result.blocksToIterate = calls[j].result.blocksToIterate
           /\ calls[i].result.blocksToIterate # << >>
           /\ (Around(calls[i]) \cap DOMAIN calls[i].result.voxelFaceMap
                  = Around(calls[j]) \cap DOMAIN calls[j].result.voxelFaceMap)
              => /\ calls[i].result.positions = calls[j].result.positions
                 /\ calls[i].result.indices = calls[j].result.indices
                 /\ calls[i].result.normals = calls[j].result.normals
                 /\ calls[i].result.uvs = calls[j].result.uvs

\* the same chunk was loaded twice with another chunk loaded in between that
\* is not next to it, and both loads built the same non-empty buffers
C5_Witness ==
    \E i, j \in DOMAIN calls :
        /\ j = i + 2
        /\ SameArgs(calls[i], calls[j])
        /\ ~ SameArgs(calls[i], calls[i + 1])
        /\ DOMAIN calls[i].result.voxelFaceMap # DOMAIN calls[j].result.voxelFaceMap
        /\ calls[i].result.positions = calls[j].result.positions
        /\ calls[i].result.positions # << >>

(* C10: loadChunk(chunkX, chunkZ, chunkY) with chunkY supplied builds the
   octree at origin (chunkX, chunkY, chunkZ) * CHUNK_SIZE with extent
   CHUNK_SIZE on each axis and fills the columns from base y
   chunkY * CHUNK_SIZE, for every supplied chunkY, 0 included; -1 is used
   only when chunkY is omitted. *)
C10_TreeOrigin ==
    \A n \in DOMAIN calls :
        LET c == calls[n]
            cY == IF c.chunkY = undefined THEN -1 ELSE c.chunkY[1]
        IN /\ c.result.tree.x = c.chunkX * CHUNK_SIZE
           /\ c.result.tree.y = cY * CHUNK_SIZE
           /\ c.result.tree.z = c.chunkZ * CHUNK_SIZE
           /\ c.result.tree.width = CHUNK_SIZE
           /\ c.result.tree.height = CHUNK_SIZE
           /\ c.result.tree.depth = CHUNK_SIZE
           /\ \A i \in DOMAIN c.result.blocksToIterate :
                 \E k \in DOMAIN columnFill :
                     c.result.blocksToIterate[i].y = cY * CHUNK_SIZE + columnFill[k][2]

(* C7: a load of a chunk coordinate that is already loaded adds no mesh to
   the scene and leaves the store as it is, so the scene never holds two
   meshes built for the same chunk coordinate. *)
C7_OneMeshPerChunk ==
    \A a, b \in scene :
        (/\ calls[a].chunkX = calls[b].chunkX
         /\ calls[a].chunkZ = calls[b].chunkZ
         /\ chunkYOrDefault(calls[a].chunkY) = chunkYOrDefault(calls[b].chunkY))
        => a = b

\* the chunk coordinate under a world position: floor(position / CHUNK_SIZE)
ViewerChunk(position) == position \div CHUNK_SIZE

\* whether the fraction v lies in [c, c + r)
InWindow(v, c, r) == c * v.d <= v.n /\ v.n < (c + r) * v.d

\* the store keys the first tick of the run unloaded
Unloaded == DOMAIN run.start.octrees \ DOMAIN run.unloaded.octrees

(* C3 as stated: the unload step for radius r removes a loaded chunk
   (cx, cy), and its meshes from the scene, exactly when the viewer
   coordinate (x, y) the step computes lies outside [cx, cx+r) x [cy, cy+r),
   and leaves every other loaded chunk as it was. *)
C3_Original ==
    run.ticks >= 1
    => LET x == viewerCoord(camera.x)
           y == viewerCoord(camera.z)
       IN /\ \A k \in DOMAIN run.start.octrees :
                 k \in Unloaded
                 <=> ~ (InWindow(x, k[1], renderDistance)
                        /\ InWindow(y, k[2], renderDistance))
          /\ \A k \in DOMAIN run.unloaded.octrees :
                 run.unloaded.octrees[k] = run.start.octrees[k]
          /\ run.unloaded.scene =
                 run.start.scene \ blocksOf(run.start.octrees, Unloaded)

(* C3 amended: the unload step for radius r removes a loaded chunk (cx, cy),
   and its meshes from the scene, exactly when the viewer coordinate (x, y)
   the step computes lies outside [cx, cx+r+1) x [cy, cy+r+1), and leaves
   every other loaded chunk as it was. *)
C3_UnloadWindow ==
    run.ticks >= 1
    => LET x == viewerCoord(camera.x)
           y == viewerCoord(camera.z)
       IN /\ \A k \in DOMAIN run.start.octrees :
                 k \in Unloaded
                 <=> ~ (InWindow(x, k[1], renderDistance + 1)
                        /\ InWindow(y, k[2], renderDistance + 1))
          /\ \A k \in DOMAIN run.unloaded.octrees :
                 run.unloaded.octrees[k] = run.start.octrees[k]
          /\ run.unloaded.scene =
                 run.start.scene \ blocksOf(run.start.octrees, Unloaded)

\* an unload step removed one chunk and kept another
C3_Witness ==
    /\ run.ticks >= 1
    /\ Unloaded # {}
    /\ DOMAIN run.unloaded.octrees # {}

(* C4: once a tick (unload step, then load step) has run for a viewer
   position and radius, further ticks for the same position and radius load
   and unload nothing: the store and the scene stay as the first tick left
   them, and the unload step removes no chunk the load step loaded. *)
C4_Idempotent ==
    /\ run.ticks >= 1
       => DOMAIN run.first.octrees \ DOMAIN run.unloaded.octrees
             \subseteq DOMAIN octrees
    /\ run.ticks = 2
       => /\ octrees = run.first.octrees
          /\ scene = run.first.scene

\* a second tick ran after a first one that unloaded a chunk
C4_Witness ==
    /\ run.ticks = 2
    /\ Unloaded # {}

\* the voxel positions of the chunks of a store
VoxelsOf(map) ==
    UNION { { calls[id].result.blocksToIterate[i] :
                 i \in DOMAIN calls[id].result.blocksToIterate } :
            id \in blocksOf(map, DOMAIN map) }

(* C6: a chunk is meshed with every border face towards a chunk that is not
   loaded emitted; after a chunk is unloaded none of its voxel keys is still
   found in the voxel map. *)
C6_UnloadedNeighborAbsent ==
    /\ run.ticks >= 1
       => \A p \in VoxelsOf(run.start.octrees) :
             p \in DOMAIN voxelFaceMap => p \in VoxelsOf(octrees)
    /\ (calls # << >> /\ run.ticks = 0)
       => LET c == calls[Len(calls)].result
          IN \A i \in DOMAIN c.blocksToIterate : \A f \in DOMAIN faces :
                LET p == c.blocksToIterate[i]
                    q == XYZ(p.x + faces[f].dir[1], p.y + faces[f].dir[2],
                             p.z + faces[f].dir[3])
                IN q \notin VoxelsOf(octrees) => QuadsOf(c.positions, p, f) # {}

(* C8: on each tick the viewer coordinate the steps compute is, on the x and
   the z axis, the integer floor(position / CHUNK_SIZE). *)
C8_ViewerChunk ==
    run.ticks >= 1
    => /\ viewerCoord(camera.x).n = ViewerChunk(camera.x) * viewerCoord(camera.x).d
       /\ viewerCoord(camera.z).n = ViewerChunk(camera.z) * viewerCoord(camera.z).d

(* C2: the tick that fires after the viewer moved away from its first
   position leaves no chunk loaded
   whose window [cx, cx+r) x [cy, cy+r) the viewer's chunk is outside of, has
   removed the meshes of each chunk it unloaded from the scene, and leaves
   every coordinate of the r x r window at the viewer's chunk in the store. *)
C2_TickStreams ==
    (run.ticks >= 1 /\ camera # [x |-> 0, z |-> 0])
    => LET x == [n |-> ViewerChunk(camera.x), d |-> 1]
           y == [n |-> ViewerChunk(camera.z), d |-> 1]
       IN /\ \A k \in DOMAIN run.start.octrees :
                 ~ (InWindow(x, k[1], renderDistance)
                    /\ InWindow(y, k[2], renderDistance))
                 => /\ k \notin DOMAIN octrees
                    /\ blocksOf(run.start.octrees, {k}) \cap scene = {}
          /\ \A i, j \in 0 .. renderDistance - 1 :
                 <<x.n + i, y.n + j>> \in DOMAIN octrees

====
